---- MODULE Spec2Model ----
(***************************************************************************)
(* medenv: the CMEMS accessor (src/src/medenv/cmems.py).                   *)
(*                                                                         *)
(* State: one accessor object (inst: whether it exists; self: its instance *)
(* attributes, among them the datastore cache; logged_in and               *)
(* num_retries_arg: what its construction was given), the record last of   *)
(* the call the caller is looking at, and answered: the dataset of the     *)
(* latest fetch whose first open attempt the remote service was ready to   *)
(* answer.                                                                 *)
(* Operations: the constructor, fetch, get_value and the slicer f_slice.   *)
(* Python exceptions are values: every operation returns the exception it  *)
(* raised ("none" when it returned normally).                              *)
(***************************************************************************)
EXTENDS Integers, Sequences, FiniteSets, TLC

VARIABLES inst, logged_in, num_retries_arg, self, answered, last

vars == <<inst, logged_in, num_retries_arg, self, answered, last>>

(***************************************************************************)
(* Bounds of the model.                                                    *)
(***************************************************************************)
\* num_retries arguments tried at construction: 1..MaxRetries and the default
MaxRetries == 2
\* longest script of remote answers to the open attempts of one fetch
MaxScript == 1
\* the longitudes and depths asked of the slicer are 0..MaxCoord
MaxCoord == 2

(***************************************************************************)
(* Program constants.                                                      *)
(***************************************************************************)
\* datetime.strptime("01-01-1987", "%d-%m-%Y"), in days since 1970-01-01
DateLimit1987 == 6209
\* datetime.strptime("01-01-1999", "%d-%m-%Y"), in days since 1970-01-01
DateLimit1999 == 10592
\* def __init__(self, num_retries=10)
DefaultNumRetries == 10

\* a Python value that is no value (None, or nothing returned)
NoValue == [none |-> TRUE]

\* The names bound at module level of cmems.py: its imports and the class.
\* open_url is not among them.
ModuleGlobals ==
    {"logging", "datetime", "os", "Union", "getpass", "xr", "copernicusmarine", "CMEMS"}

Descriptor(dataset_id, variable, slice_mode, has_depth, date_limit) ==
    [dataset_id |-> dataset_id, variable |-> variable, slice_mode |-> slice_mode,
     has_depth |-> has_depth, date_limit |-> date_limit]

\* CMEMS._feature_params: the static registry
feature_params ==
    [temperature |-> Descriptor("med-cmcc-tem-rean-d", "thetao", "lon-lat", TRUE, DateLimit1987),
     salinity |-> Descriptor("med-cmcc-sal-rean-d", "so", "lon-lat", TRUE, DateLimit1987)]
    @@ ("eastward-water-velocity" :>
            Descriptor("med-cmcc-cur-rean-d", "uo", "lon-lat", TRUE, DateLimit1987))
    @@ ("northward-water-velocity" :>
            Descriptor("med-cmcc-cur-rean-d", "vo", "lon-lat", TRUE, DateLimit1987))
    @@ ("mixed-layer-thickness" :>
            Descriptor("med-cmcc-mld-rean-d", "mlotst", "lon-lat", FALSE, DateLimit1987))
    @@ ("sea-surface-above-geoid" :>
            Descriptor("med-cmcc-ssh-rean-d", "zos", "lon-lat", FALSE, DateLimit1987))
    @@ ("phytoplankton-carbon-biomass" :>
            Descriptor("med-ogs-pft-rean-d", "phyc", "longitude-latitude", TRUE, DateLimit1999))
    @@ ("chlorophyl-a" :>
            Descriptor("med-ogs-pft-rean-d", "chl", "longitude-latitude", TRUE, DateLimit1999))
    @@ ("nitrate" :>
            Descriptor("med-ogs-nut-rean-d", "no3", "longitude-latitude", TRUE, DateLimit1999))
    @@ ("phosphate" :>
            Descriptor("med-ogs-nut-rean-d", "po4", "longitude-latitude", TRUE, DateLimit1999))
    @@ ("ammonium" :>
            Descriptor("med-ogs-nut-rean-d", "nh4", "longitude-latitude", TRUE, DateLimit1999))
    @@ ("net-primary-production" :>
            Descriptor("med-ogs-bio-rean-d", "nppv", "longitude-latitude", TRUE, DateLimit1999))
    @@ ("oxygen" :>
            Descriptor("med-ogs-bio-rean-d", "o2", "longitude-latitude", TRUE, DateLimit1999))
    @@ ("ph" :>
            Descriptor("med-ogs-car-rean-d", "ph", "longitude-latitude", TRUE, DateLimit1999))
    @@ ("dissolved-inorganic-carbon" :>
            Descriptor("med-ogs-car-rean-d", "dissic", "longitude-latitude", TRUE, DateLimit1999))
    @@ ("alkalinity" :>
            Descriptor("med-ogs-car-rean-d", "talk", "longitude-latitude", TRUE, DateLimit1999))
    @@ ("surface-partial-pressure-co2" :>
            Descriptor("med-ogs-co2-rean-d", "spco2", "longitude-latitude", FALSE, DateLimit1999))
    @@ ("surface-co2-flux" :>
            Descriptor("med-ogs-co2-rean-d", "fpco2", "longitude-latitude", FALSE, DateLimit1999))

Features == DOMAIN feature_params
DatasetIds == {feature_params[f].dataset_id : f \in Features}

(***************************************************************************)
(* Query arguments.  An axis argument is a scalar or a 2-tuple:            *)
(* isinstance(x, tuple) is the field tup; a scalar v is [tup |-> FALSE,    *)
(* lo |-> v, hi |-> v], the tuple (a, b) is [tup |-> TRUE, lo |-> a,       *)
(* hi |-> b].                                                              *)
(***************************************************************************)
Scalar(v) == [tup |-> FALSE, lo |-> v, hi |-> v]
Tuple(a, b) == [tup |-> TRUE, lo |-> a, hi |-> b]
AxisArgs(S) == {Scalar(v) : v \in S} \cup {Tuple(a, b) : a \in S, b \in S}

(***************************************************************************)
(* The accessor object.  self is the function from the names of the        *)
(* instance attributes that were assigned to their values.                 *)
(***************************************************************************)
NoAttrs == [a \in {} |-> NoValue]
EmptyCache == [d \in {} |-> NoValue]

\* __init__ without the test of the login's result
init_login_unchecked(num_retries, logged) ==
    [exc |-> "none", self |-> [datastores |-> EmptyCache]]

\* CMEMS.__init__(self, num_retries): logged is what copernicusmarine.login
\* returned.  The credentials come from the environment or a prompt and only
\* feed the login.  The only attribute assigned is datastores.
init(num_retries, logged) ==
    IF ~logged
    THEN [exc |-> "RuntimeError: Login to cmems unsucessfull", self |-> NoAttrs]
    ELSE [exc |-> "none", self |-> [datastores |-> EmptyCache]]

\* What the remote service answers to the k-th open attempt of one fetch: the
\* script says it for the first Len(script) attempts, after which it is down.
Remote(script, k) == IF k <= Len(script) THEN script[k] ELSE "fail"

\* The try block of fetch (lines 196-203): "ok" when data_store is bound, else
\* the exception raised.  The name open_url is looked up first, then
\* self.session, then the call reaches the remote service.
try_open(slf, answer) ==
    IF "open_url" \notin ModuleGlobals THEN "NameError: open_url"
    ELSE IF "session" \notin DOMAIN slf THEN "AttributeError: session"
    ELSE IF answer = "ok" THEN "ok"
    ELSE "remote failure"

\* The retry loop of fetch (lines 194-210), entered with `retries` failures
\* behind it.  The bare except catches whatever the try block raised; the
\* handler's log message reads self.num_retries before retries is counted.
RECURSIVE open_loop(_, _, _)
open_loop(slf, script, retries) ==
    LET outcome == try_open(slf, Remote(script, retries + 1)) IN
    IF outcome = "ok"
    THEN [exc |-> "none", attempts |-> retries + 1]
    ELSE IF "num_retries" \notin DOMAIN slf
    THEN [exc |-> "AttributeError: num_retries", attempts |-> retries + 1]
    ELSE IF retries + 1 >= slf["num_retries"]
    THEN [exc |-> "RuntimeError: Cannot successfully access the dataset",
          attempts |-> retries + 1]
    ELSE open_loop(slf, script, retries + 1)

\* xr.open_dataset(data_store): the handle of the opened dataset
Handle(prefix_dataset, dataset) == [prefix |-> prefix_dataset, dataset |-> dataset]

\* fetch recording an entry for the dataset although its open failed
fetch_caches_failure(slf, prefix_dataset, dataset, script) ==
    IF dataset \in DOMAIN slf["datastores"]
    THEN [exc |-> "none", ret |-> slf["datastores"][dataset], self |-> slf, attempts |-> 0]
    ELSE LET opened == open_loop(slf, script, 0)
             store == (dataset :> Handle(prefix_dataset, dataset)) @@ slf["datastores"]
             after == [slf EXCEPT !["datastores"] = store]
         IN IF opened.exc # "none"
            THEN [exc |-> opened.exc, ret |-> NoValue, self |-> after,
                  attempts |-> opened.attempts]
            ELSE [exc |-> "none", ret |-> after["datastores"][dataset], self |-> after,
                  attempts |-> opened.attempts]

\* CMEMS.fetch(self, prefix_dataset, dataset).  attempts counts the
\* executions of the try block.
fetch(slf, prefix_dataset, dataset, script) ==
    IF dataset \in DOMAIN slf["datastores"]
    THEN [exc |-> "none", ret |-> slf["datastores"][dataset], self |-> slf, attempts |-> 0]
    ELSE LET opened == open_loop(slf, script, 0) IN
         IF opened.exc # "none"
         THEN [exc |-> opened.exc, ret |-> NoValue, self |-> slf,
               attempts |-> opened.attempts]
         ELSE LET store == (dataset :> Handle(prefix_dataset, dataset))
                               @@ slf["datastores"]
                  after == [slf EXCEPT !["datastores"] = store]
              IN [exc |-> "none", ret |-> after["datastores"][dataset], self |-> after,
                  attempts |-> opened.attempts]

(***************************************************************************)
(* The remote data.  A data array has one coordinate axis per dimension, a *)
(* sequence of labels in increasing order in which a label may be repeated *)
(* (the duplicated indices drop_duplicates removes).  Its dimensions carry *)
(* the names the descriptor's slice mode announces, and depth is a         *)
(* dimension only for the features that have one.                          *)
(***************************************************************************)
TimeAxis == <<DateLimit1999, DateLimit1999 + 1>>
LonAxis == <<0, 2, 2, 4>>
LatAxis == <<1, 3>>
DepthAxis == <<0, 5>>

KeyLon(mode) == IF mode = "lon-lat" THEN "lon" ELSE "longitude"
KeyLat(mode) == IF mode = "lon-lat" THEN "lat" ELSE "latitude"

\* datastore[field] for a feature: dimension name -> axis
DataArray(params) ==
    LET flat == ("time" :> TimeAxis) @@ (KeyLon(params.slice_mode) :> LonAxis)
                    @@ (KeyLat(params.slice_mode) :> LatAxis)
    IN IF params.has_depth THEN flat @@ ("depth" :> DepthAxis) ELSE flat

\* the sample stored at a grid point (depth is 0 where there is no depth axis)
Sample(time, lon, lat, depth) == (time - DateLimit1999) + 2 * lon + lat + depth

(***************************************************************************)
(* f_slice, the slicer nested in get_value.                                *)
(***************************************************************************)
\* the range selection with the latitude range stored under the longitude key
slice_coords_lat_under_lon(mode, date, long_lat, depth, has_depth) ==
    LET lon == IF long_lat[1].tup
               THEN (KeyLon(mode) :> <<long_lat[1].lo, long_lat[1].hi>>) ELSE << >>
        lat == IF long_lat[2].tup
               THEN (KeyLon(mode) :> <<long_lat[2].lo, long_lat[2].hi>>) ELSE << >>
        dep == IF has_depth /\ depth.tup
               THEN ("depth" :> <<depth.lo, depth.hi>>) ELSE << >>
        tim == IF date.tup THEN ("time" :> <<date.lo, date.hi>>) ELSE << >>
    IN tim @@ dep @@ lat @@ lon

\* lines 233-255: the keyword arguments of the range selection, key -> bounds
slice_coords_definition(mode, date, long_lat, depth, has_depth) ==
    LET lon == IF long_lat[1].tup
               THEN (KeyLon(mode) :> <<long_lat[1].lo, long_lat[1].hi>>) ELSE << >>
        lat == IF long_lat[2].tup
               THEN (KeyLat(mode) :> <<long_lat[2].lo, long_lat[2].hi>>) ELSE << >>
        dep == IF has_depth /\ depth.tup
               THEN ("depth" :> <<depth.lo, depth.hi>>) ELSE << >>
        tim == IF date.tup THEN ("time" :> <<date.lo, date.hi>>) ELSE << >>
    IN tim @@ dep @@ lat @@ lon

\* lines 234-257: the keyword arguments of the nearest-point selection
\* without its "method": "nearest" entry, key -> value
noslice_coords_definition(mode, date, long_lat, depth, has_depth) ==
    LET lon == IF long_lat[1].tup THEN << >> ELSE (KeyLon(mode) :> long_lat[1].lo)
        lat == IF long_lat[2].tup THEN << >> ELSE (KeyLat(mode) :> long_lat[2].lo)
        dep == IF has_depth /\ ~depth.tup THEN ("depth" :> depth.lo) ELSE << >>
        tim == IF date.tup THEN << >> ELSE ("time" :> date.lo)
    IN tim @@ dep @@ lat @@ lon

\* ds.drop_duplicates(dim=...) on one axis: the first of equal labels is kept
drop_duplicates(axis) ==
    LET keep == {i \in 1..Len(axis) : \A j \in 1..(i - 1) : axis[j] # axis[i]}
        Kept(i) == Cardinality({j \in keep : j <= i})
    IN [n \in 1..Cardinality(keep) |-> axis[CHOOSE i \in keep : Kept(i) = n]]

\* a range selection that forgets the upper bound
sel_slice_unbounded(axis, bounds) ==
    LET AtLeast(v) == bounds[1] <= v IN SelectSeq(axis, AtLeast)

\* ds.sel(key=slice(lo, hi)) on one axis: the labels within [lo, hi]
sel_slice(axis, bounds) ==
    LET Within(v) == bounds[1] <= v /\ v <= bounds[2] IN SelectSeq(axis, Within)

Distance(a, b) == IF a >= b THEN a - b ELSE b - a

\* ds.sel(key=x, method="nearest") on one axis: the nearest label, the larger
\* one of two labels equally near
sel_nearest(axis, x) ==
    LET labels == {axis[i] : i \in 1..Len(axis)} IN
    CHOOSE v \in labels :
        \A w \in labels : Distance(v, x) < Distance(w, x)
                            \/ (Distance(v, x) = Distance(w, x) /\ v >= w)

\* lines 261-265: the coordinates left by the two selections, dimension name
\* -> [axis, scalar]; a nearest-point selection leaves a scalar coordinate
selection(ds, slices, noslices) ==
    [k \in DOMAIN ds |->
        LET deduped == drop_duplicates(ds[k]) IN
        IF k \in DOMAIN slices
        THEN [axis |-> sel_slice(deduped, slices[k]), scalar |-> FALSE]
        ELSE IF k \in DOMAIN noslices
        THEN [axis |-> <<sel_nearest(deduped, noslices[k])>>, scalar |-> TRUE]
        ELSE [axis |-> deduped, scalar |-> FALSE]]

\* values.to_dataframe() then reset_index (lines 268-272): one row per grid
\* point left, every coordinate a column under the dimension's own name
to_dataframe(mode, coords) ==
    LET T == coords["time"].axis
        Lo == coords[KeyLon(mode)].axis
        La == coords[KeyLat(mode)].axis
        deep == "depth" \in DOMAIN coords
        D == IF deep THEN coords["depth"].axis ELSE <<0>>
        n == Len(T) * Len(D) * Len(La) * Len(Lo)
        Row(i) ==
            LET lon == Lo[((i - 1) % Len(Lo)) + 1]
                lat == La[(((i - 1) \div Len(Lo)) % Len(La)) + 1]
                dep == D[(((i - 1) \div (Len(Lo) * Len(La))) % Len(D)) + 1]
                tim == T[((i - 1) \div (Len(Lo) * Len(La) * Len(D))) + 1]
                flat == ("time" :> tim) @@ (KeyLon(mode) :> lon)
                            @@ (KeyLat(mode) :> lat)
                            @@ ("value" :> Sample(tim, lon, lat, dep))
            IN IF deep THEN flat @@ ("depth" :> dep) ELSE flat
    IN [i \in 1..n |-> Row(i)]

\* df_values["depth"] = depth (line 278): a scalar fills the column; a tuple
\* is a column of values, one per row, and must be as long as the table
assign_depth(rows, depth) ==
    IF ~depth.tup
    THEN [exc |-> "none",
          rows |-> [i \in 1..Len(rows) |-> ("depth" :> depth.lo) @@ rows[i]]]
    ELSE IF Len(rows) # 2
    THEN [exc |-> "ValueError: Length of values does not match length of index",
          rows |-> rows]
    ELSE [exc |-> "none",
          rows |-> [i \in 1..Len(rows) |->
                      ("depth" :> (IF i = 1 THEN depth.lo ELSE depth.hi)) @@ rows[i]]]

\* lines 281-287: set_index on the columns time, key_lon, key_lat, depth, then
\* the index levels renamed in that order
set_index(rows, mode) ==
    [index |-> <<"time", "longitude", "latitude", "depth">>,
     rows |-> [i \in 1..Len(rows) |->
                 [time |-> rows[i]["time"], longitude |-> rows[i][KeyLon(mode)],
                  latitude |-> rows[i][KeyLat(mode)], depth |-> rows[i]["depth"],
                  value |-> rows[i]["value"]]]]

RECURSIVE SumValues(_, _)
SumValues(rows, n) == IF n = 0 THEN 0 ELSE rows[n].value + SumValues(rows, n - 1)

\* a reduction that takes every reduction asked for as the mean
reduce_any(table, reduction) ==
    IF reduction # "None"
    THEN [kind |-> "scalar", sum |-> SumValues(table.rows, Len(table.rows)),
          count |-> Len(table.rows)]
    ELSE [kind |-> "table", index |-> table.index, rows |-> table.rows]

\* lines 288-291: the mean of the value column as the fraction sum / count
\* (not a number over no row), or the table itself
reduce(table, reduction) ==
    IF reduction = "mean"
    THEN [kind |-> "scalar", sum |-> SumValues(table.rows, Len(table.rows)),
          count |-> Len(table.rows)]
    ELSE [kind |-> "table", index |-> table.index, rows |-> table.rows]

\* lines 293-300: the coordinates selected, under the dimensions' own names
selected_coordinates(mode, coords, has_depth) ==
    ("time" :> coords["time"].axis) @@ (KeyLon(mode) :> coords[KeyLon(mode)].axis)
        @@ (KeyLat(mode) :> coords[KeyLat(mode)].axis)
        @@ ("depth" :> (IF has_depth THEN coords["depth"].axis ELSE <<"nan">>))

Failed(exc, slices, noslices) ==
    [exc |-> exc, result |-> NoValue, selected |-> NoValue,
     slices |-> slices, noslices |-> noslices]

\* f_slice(ds, mode, date, long_lat, depth, has_depth), lines 225-301, with the
\* reduction of the enclosing get_value.  slices and noslices are the
\* arguments it handed to the two selections.
f_slice(ds, mode, date, long_lat, depth, has_depth, reduction) ==
    LET slices == slice_coords_definition(mode, date, long_lat, depth, has_depth)
        noslices == noslice_coords_definition(mode, date, long_lat, depth, has_depth)
    IN
    IF ~((DOMAIN slices \cup DOMAIN noslices) \subseteq DOMAIN ds)
    THEN Failed("KeyError: not a dimension", slices, noslices)
    ELSE
    LET coords == selection(ds, slices, noslices) IN
    IF \A k \in DOMAIN coords : coords[k].scalar
    THEN Failed("ValueError: cannot convert a scalar to a DataFrame", slices, noslices)
    ELSE
    LET frame == to_dataframe(mode, coords)
        filled == IF has_depth THEN [exc |-> "none", rows |-> frame]
                  ELSE assign_depth(frame, depth)
    IN
    IF filled.exc # "none" THEN Failed(filled.exc, slices, noslices)
    ELSE IF \E i \in 1..Len(filled.rows) : "depth" \notin DOMAIN filled.rows[i]
    THEN Failed("KeyError: depth", slices, noslices)
    ELSE [exc |-> "none",
          result |-> reduce(set_index(filled.rows, mode), reduction),
          selected |-> selected_coordinates(mode, coords, has_depth),
          slices |-> slices, noslices |-> noslices]

(***************************************************************************)
(* get_value                                                               *)
(***************************************************************************)
\* the test of the date with the last date of a range in place of the first
before_date_limit_range_end(date, params) ==
    (date.tup /\ date.hi < params.date_limit)
        \/ (~date.tup /\ date.lo < params.date_limit)

\* lines 308-310: the date, or the first date of a range, against date_limit
before_date_limit(date, params) ==
    (date.tup /\ date.lo < params.date_limit)
        \/ (~date.tup /\ date.lo < params.date_limit)

Raised(exc, slf, calls, attempts) ==
    [exc |-> exc, result |-> NoValue, selected |-> NoValue, self |-> slf,
     fetch_calls |-> calls, attempts |-> attempts, field |-> NoValue]

\* lines 305-322: get_value for a name of the registry.  params is read with
\* the keys prefix, dataset and field; fetch_calls are the calls of fetch
\* made, with their arguments.
get_value_known(slf, date, long_lat, depth, params, reduction, script) ==
    IF before_date_limit(date, params)
    THEN Raised("ValueError: Cannot get before date_limit", slf, << >>, 0)
    ELSE IF "prefix" \notin DOMAIN params
    THEN Raised("KeyError: prefix", slf, << >>, 0)
    ELSE IF "dataset" \notin DOMAIN params
    THEN Raised("KeyError: dataset", slf, << >>, 0)
    ELSE
    LET call == <<params["prefix"], params["dataset"]>>
        fetched == fetch(slf, call[1], call[2], script)
    IN
    IF fetched.exc # "none"
    THEN Raised(fetched.exc, fetched.self, <<call>>, fetched.attempts)
    ELSE IF "field" \notin DOMAIN params
    THEN Raised("KeyError: field", fetched.self, <<call>>, fetched.attempts)
    ELSE
    LET sliced == f_slice(DataArray(params), params.slice_mode, date, long_lat,
                          depth, params.has_depth, reduction)
    IN [exc |-> sliced.exc, result |-> sliced.result, selected |-> sliced.selected,
        self |-> fetched.self, fetch_calls |-> <<call>>,
        attempts |-> fetched.attempts, field |-> params["field"]]

\* get_value reading the registry without the test that the name is in it
get_value_unchecked_name(slf, date, long_lat, depth, what, reduction, script) ==
    IF what \in DOMAIN feature_params
    THEN get_value_known(slf, date, long_lat, depth, feature_params[what],
                         reduction, script)
    ELSE Raised("KeyError: what", slf, << >>, 0)

\* CMEMS.get_value(self, date, long_lat, depth, what, reduction), lines 303-326
get_value(slf, date, long_lat, depth, what, reduction, script) ==
    IF what \in DOMAIN feature_params
    THEN get_value_known(slf, date, long_lat, depth, feature_params[what],
                         reduction, script)
    ELSE Raised("ValueError: Does not know which dataset to download", slf, << >>, 0)

(***************************************************************************)
(* The inputs of the calls.                                                *)
(***************************************************************************)
NumRetriesArgs == (1..MaxRetries) \cup {DefaultNumRetries}
Logins == BOOLEAN

RECURSIVE ScriptsOfLen(_)
ScriptsOfLen(n) ==
    IF n = 0 THEN {<< >>}
    ELSE {Append(sc, a) : sc \in ScriptsOfLen(n - 1), a \in {"ok", "fail"}}
Scripts == UNION {ScriptsOfLen(n) : n \in 0..MaxScript}

\* the registry's names and two names the examples ask for that it lacks
Whats == Features \cup {"sea-surface-temperature", "bathymetry"}
Prefixes == {"my", "nrt"}
QueryDays == {DateLimit1987 - 1, DateLimit1987, DateLimit1999 - 1, DateLimit1999}
QueryDates ==
    {Scalar(v) : v \in QueryDays} \cup {Tuple(a, b) : a \in QueryDays, b \in {DateLimit1999}}
QueryLongLats == {<<Scalar(1), Scalar(2)>>, <<Tuple(0, 2), Scalar(1)>>}
QueryDepths == {Scalar(0), Tuple(0, 5)}
Reductions == {"None", "mean", "max"}

SliceDates == {Scalar(DateLimit1999), Tuple(DateLimit1999, DateLimit1999 + 1)}
SliceLons == AxisArgs(0..MaxCoord)
SliceLats == {Scalar(2), Tuple(1, 3)}
SliceDepths == {Scalar(0), Scalar(MaxCoord), Tuple(0, MaxCoord)}

(***************************************************************************)
(* The state machine.                                                      *)
(***************************************************************************)
Idle == [op |-> "none"]

Init ==
    /\ inst = "none"
    /\ logged_in = FALSE
    /\ num_retries_arg = 0
    /\ self = NoAttrs
    /\ answered = ""
    /\ last = Idle

\* cmems = CMEMS(num_retries): the object exists for its callers when
\* __init__ returns; when it raises, the caller may construct again
Construct ==
    /\ inst \in {"none", "aborted"}
    /\ last = Idle
    /\ \E n \in NumRetriesArgs, logged \in Logins :
         LET r == init(n, logged) IN
         /\ inst' = IF r.exc = "none" THEN "live" ELSE "aborted"
         /\ logged_in' = logged
         /\ num_retries_arg' = n
         /\ self' = r.self
         /\ last' = [op |-> "init", exc |-> r.exc]
    /\ answered' = ""

\* cmems.fetch(prefix_dataset, dataset) called on the accessor
CallFetch ==
    /\ inst = "live"
    /\ last = Idle
    /\ \E p \in Prefixes, d \in DatasetIds, sc \in Scripts :
         LET r == fetch(self, p, d, sc) IN
         /\ self' = r.self
         /\ answered' = IF Remote(sc, 1) = "ok" THEN d ELSE answered
         /\ last' = [op |-> "fetch", prefix |-> p, dataset |-> d, script |-> sc,
                     cached |-> d \in DOMAIN self["datastores"],
                     cache_before |-> self["datastores"],
                     answered_before |-> answered,
                     exc |-> r.exc, ret |-> r.ret, attempts |-> r.attempts]
    /\ UNCHANGED <<inst, logged_in, num_retries_arg>>

\* cmems.get_value(date, long_lat, depth, what, reduction) called on the accessor
CallGetValue ==
    /\ inst = "live"
    /\ last = Idle
    /\ \E date \in QueryDates, ll \in QueryLongLats, depth \in QueryDepths,
          what \in Whats, red \in Reductions, sc \in Scripts :
         LET r == get_value(self, date, ll, depth, what, red, sc) IN
         /\ self' = r.self
         /\ answered' = IF r.fetch_calls # << >> /\ Remote(sc, 1) = "ok"
                        THEN r.fetch_calls[1][2] ELSE answered
         /\ last' = [op |-> "get_value", date |-> date, long_lat |-> ll,
                     depth |-> depth, what |-> what, reduction |-> red,
                     script |-> sc, cache_before |-> self["datastores"],
                     exc |-> r.exc, result |-> r.result,
                     selected |-> r.selected, fetch_calls |-> r.fetch_calls,
                     attempts |-> r.attempts, field |-> r.field]
    /\ UNCHANGED <<inst, logged_in, num_retries_arg>>

\* the slicer applied to the data array of a feature, as get_value applies it
\* (lines 315-322) to the handle fetch returned
CallSlice ==
    /\ last = Idle
    /\ \E date \in SliceDates, lon \in SliceLons, lat \in SliceLats,
          depth \in SliceDepths, what \in Features, red \in Reductions :
         LET params == feature_params[what]
             r == f_slice(DataArray(params), params.slice_mode, date, <<lon, lat>>,
                          depth, params.has_depth, red)
         IN last' = [op |-> "f_slice", date |-> date, long_lat |-> <<lon, lat>>,
                     depth |-> depth, what |-> what, mode |-> params.slice_mode,
                     has_depth |-> params.has_depth, reduction |-> red,
                     exc |-> r.exc, result |-> r.result, selected |-> r.selected,
                     slices |-> r.slices, noslices |-> r.noslices]
    /\ UNCHANGED <<inst, logged_in, num_retries_arg, self, answered>>

\* the caller has taken the result, or the exception, of its call and is
\* ready for the next one
Return ==
    /\ last # Idle
    /\ last' = Idle
    /\ UNCHANGED <<inst, logged_in, num_retries_arg, self, answered>>

\* the accessor and its callers
Next == Construct \/ CallFetch \/ CallGetValue \/ Return

Spec == Init /\ [][Next]_vars

\* the slicer alone, applied to every query
NextSlice == CallSlice \/ Return

SpecSlice == Init /\ [][NextSlice]_vars

(***************************************************************************)
(* The claims.                                                             *)
(***************************************************************************)
UnknownFeatureError == "ValueError: Does not know which dataset to download"
DateError == "ValueError: Cannot get before date_limit"
UnreachableError == "RuntimeError: Cannot successfully access the dataset"
Uncached == last.op = "fetch" /\ ~last.cached
\* the first n answers of the remote service are failures
AllFail(script, n) == \A k \in 1..n : Remote(script, k) = "fail"

\* C1: get_value with a name that is no key of the registry raises the
\* unknown-feature ValueError whatever the other arguments are, calls fetch
\* not at all, attempts no open and leaves the datastore cache as it was.
C1_UnknownFeatureFails ==
    (last.op = "get_value" /\ last.what \notin DOMAIN feature_params) =>
        /\ last.exc = UnknownFeatureError
        /\ last.fetch_calls = << >>
        /\ last.attempts = 0
        /\ self["datastores"] = last.cache_before

\* an unknown name asked with a range of dates and a range of depths
C1_Witness ==
    /\ last.op = "get_value"
    /\ last.what = "bathymetry"
    /\ last.date.tup
    /\ last.depth.tup
    /\ last.exc = UnknownFeatureError

\* C2: for a name of the registry, a date (or a first date of a range) earlier
\* than the feature's date_limit makes get_value raise the date ValueError
\* with no call of fetch and no open attempt.
C2_EarlyDateFailsBeforeFetch ==
    (/\ last.op = "get_value"
     /\ last.what \in DOMAIN feature_params
     /\ last.date.lo < feature_params[last.what].date_limit) =>
        /\ last.exc = DateError
        /\ last.fetch_calls = << >>
        /\ last.attempts = 0

\* nitrate (valid from 1999-01-01) asked from 1998-12-31 on
C2_Witness ==
    /\ last.op = "get_value"
    /\ last.what = "nitrate"
    /\ last.date = Tuple(DateLimit1999 - 1, DateLimit1999)
    /\ last.exc = DateError

\* C3: with retry bound N, a fetch of an uncached dataset whose opens fail
\* N-1 times and then succeed returns the handle and caches it; one whose
\* opens fail N times raises the dataset-unreachable RuntimeError.
C3_RetryBound ==
    Uncached =>
        /\ (AllFail(last.script, num_retries_arg - 1)
              /\ Remote(last.script, num_retries_arg) = "ok") =>
                /\ last.exc = "none"
                /\ last.dataset \in DOMAIN self["datastores"]
                /\ last.ret = self["datastores"][last.dataset]
        /\ AllFail(last.script, num_retries_arg) => last.exc = UnreachableError

C5_RegisteredFeatureResolves ==
    (/\ last.op = "get_value"
     /\ last.what \in DOMAIN feature_params
     /\ ~(last.date.lo < feature_params[last.what].date_limit)) =>
        /\ last.exc \notin {"KeyError: prefix", "KeyError: dataset", "KeyError: field"}
        /\ Len(last.fetch_calls) = 1
        /\ last.fetch_calls[1][2] = feature_params[last.what].dataset_id
        /\ last.field = feature_params[last.what].variable

\* C6: the retry bound of fetch is the num_retries given at construction: a
\* fetch of an uncached dataset makes at most that many open attempts and
\* ends with a handle or with the dataset-unreachable RuntimeError, raised
\* after exactly that many failures.
C6_ConfiguredRetryBound ==
    Uncached =>
        /\ last.attempts <= num_retries_arg
        /\ last.exc \in {"none", UnreachableError}
        /\ last.exc = UnreachableError => last.attempts = num_retries_arg

\* the call looked at is one of the slicer, on a feature with no depth axis
SlicedDepthless == last.op = "f_slice" /\ ~last.has_depth
\* the slicer returned a table
SlicedTable == last.op = "f_slice" /\ last.exc = "none" /\ last.reduction = "None"

\* C7: for a feature with no depth axis and any requested depth, no depth
\* key is in the range selection or in the nearest-point selection, and
\* every row of the result reports the requested depth as it was given.
C7_DepthPassthrough ==
    SlicedDepthless =>
        /\ "depth" \notin DOMAIN last.slices
        /\ "depth" \notin DOMAIN last.noslices
        /\ SlicedTable =>
             \A i \in 1..Len(last.result.rows) :
                Scalar(last.result.rows[i].depth) = last.depth

\* the axis argument arg is in the selection that its shape asks for, under
\* key, and not in the other one
PlacedOnce(key, arg) ==
    IF arg.tup
    THEN /\ key \in DOMAIN last.slices
         /\ last.slices[key] = <<arg.lo, arg.hi>>
         /\ key \notin DOMAIN last.noslices
    ELSE /\ key \in DOMAIN last.noslices
         /\ last.noslices[key] = arg.lo
         /\ key \notin DOMAIN last.slices

\* C8: time, longitude, latitude and (with a depth axis) depth are each in
\* exactly one selection: a range slice with the given bounds for a
\* 2-tuple, a nearest-point selection of the given value for a scalar;
\* the keys are lon and lat for the slice mode "lon-lat", longitude and
\* latitude otherwise.
C8_EachAxisInOneSelection ==
    last.op = "f_slice" =>
        LET lon == IF last.mode = "lon-lat" THEN "lon" ELSE "longitude"
            lat == IF last.mode = "lon-lat" THEN "lat" ELSE "latitude"
        IN /\ PlacedOnce("time", last.date)
           /\ PlacedOnce(lon, last.long_lat[1])
           /\ PlacedOnce(lat, last.long_lat[2])
           /\ last.has_depth => PlacedOnce("depth", last.depth)
           /\ (DOMAIN last.slices \cup DOMAIN last.noslices)
                \subseteq {"time", lon, lat, "depth"}

\* ranges on longitude and latitude, points in time and depth
C8_Witness ==
    /\ last.op = "f_slice"
    /\ last.mode = "longitude-latitude"
    /\ last.has_depth
    /\ last.long_lat[1].tup
    /\ last.long_lat[2].tup
    /\ ~last.depth.tup
    /\ ~last.date.tup
    /\ DOMAIN last.slices = {"longitude", "latitude"}
    /\ DOMAIN last.noslices = {"time", "depth"}

\* C9: when the login fails, construction raises, no accessor with a
\* datastore cache exists, and no fetch or get_value is ever made on it.
C9_LoginFailureAborts ==
    ~logged_in =>
        /\ inst # "live"
        /\ "datastores" \notin DOMAIN self
        /\ last.op \in {"none", "init"}
        /\ last.op = "init" => last.exc = "RuntimeError: Login to cmems unsucessfull"

\* a construction that the failed login aborted
C9_Witness ==
    /\ ~logged_in
    /\ inst = "aborted"
    /\ last.op = "init"
    /\ last.exc = "RuntimeError: Login to cmems unsucessfull"

\* C10: with a range (lo, hi) asked on longitude, every row of the table has
\* its longitude within [lo, hi], and the table is indexed by (time,
\* longitude, latitude, depth) under either naming of the coordinates.
C10_LongitudeRange ==
    (SlicedTable /\ last.long_lat[1].tup) =>
        /\ last.result.index = <<"time", "longitude", "latitude", "depth">>
        /\ \A i \in 1..Len(last.result.rows) :
              /\ last.long_lat[1].lo <= last.result.rows[i].longitude
              /\ last.result.rows[i].longitude <= last.long_lat[1].hi

\* the longitudes (1, 2) asked of a lon/lat dataset: the two rows at longitude 2
C10_Witness ==
    /\ SlicedTable
    /\ last.mode = "lon-lat"
    /\ last.long_lat[1] = Tuple(1, 2)
    /\ last.long_lat[2].tup
    /\ Len(last.result.rows) = 2
    /\ \A i \in 1..2 : last.result.rows[i].longitude = 2

\* the slicer returned: its pair (result, selected_coordinates) is what
\* get_value returns (lines 315-322)
SlicedOk == last.op = "f_slice" /\ last.exc = "none"
\* the result is the table under its four index levels
IsIndexedTable(result) ==
    /\ result.kind = "table"
    /\ result.index = <<"time", "longitude", "latitude", "depth">>
\* the selected coordinates come with the result, one entry per axis
HasSelected ==
    DOMAIN last.selected = {"time", KeyLon(last.mode), KeyLat(last.mode), "depth"}

\* C11 as stated: the result is a scalar whenever the reduction argument is
\* not None and the table indexed by (time, longitude, latitude, depth) when
\* it is None, with the selected coordinates in both cases.
C11_ScalarForAnyReduction ==
    SlicedOk =>
        /\ last.reduction # "None" => last.result.kind = "scalar"
        /\ last.reduction = "None" => IsIndexedTable(last.result)
        /\ HasSelected

\* C11, amended: the result is a scalar when the reduction argument is
\* "mean" and the table indexed by (time, longitude, latitude, depth) for
\* every other reduction argument, None or not, with the selected
\* coordinates in both cases.
C11_ScalarForMean ==
    SlicedOk =>
        /\ last.reduction = "mean" => last.result.kind = "scalar"
        /\ last.reduction # "mean" => IsIndexedTable(last.result)
        /\ HasSelected

\* the mean over two rows, and a reduction other than the mean is not the case
C11_Witness ==
    /\ SlicedOk
    /\ last.reduction = "mean"
    /\ last.result.kind = "scalar"
    /\ last.result.count = 2
    /\ HasSelected

\* every entry of the cache is in the cache of the next state, unchanged
CacheKept ==
    "datastores" \in DOMAIN self =>
        /\ "datastores" \in DOMAIN self'
        /\ \A d \in DOMAIN self["datastores"] :
              /\ d \in DOMAIN self'["datastores"]
              /\ self'["datastores"][d] = self["datastores"][d]

\* C12: the datastore cache only grows: over any calls of fetch and
\* get_value an entry once present is neither removed nor replaced.
C12_CacheOnlyGrows == [][CacheKept]_vars

\* the call looked at is a request that raised
FailedRequest == last.op \in {"fetch", "get_value"} /\ last.exc # "none"

\* C13: a request that fails leaves the datastore cache as it was before the
\* request; no entry is recorded for a dataset whose open did not succeed,
\* and a fetch of a dataset with no entry attempts the open, its count of
\* retries starting anew.
C13_FailedRequestKeepsCache ==
    /\ FailedRequest =>
          /\ self["datastores"] = last.cache_before
          /\ last.op = "fetch" => last.dataset \notin DOMAIN self["datastores"]
    /\ Uncached => last.attempts >= 1

\* a fetch that failed, of the dataset of an earlier fetch that failed too:
\* the open is attempted again and the cache is still what it was
C13_Witness ==
    /\ FailedRequest
    /\ last.op = "fetch"
    /\ last.answered_before = last.dataset
    /\ last.attempts = 1
    /\ self["datastores"] = last.cache_before

====
